---- MODULE Spec2Model ----
(***************************************************************************)
(* A model of x86-feature-check.py: the static feature tables, the flag    *)
(* extractor (extract_cpu_flags), the feature resolver (has_feature), the  *)
(* tier evaluator (supports_feature_set, get_supported_feature_sets) and   *)
(* the reporting done by main.                                             *)
(*                                                                         *)
(* Python values are modelled as follows.                                  *)
(*   - A str that the program only compares or prints is a TLA+ string.    *)
(*   - A str that the program scans (the cpuinfo text, the names of the    *)
(*     module globals) is a sequence of symbols.  A symbol of a global     *)
(*     name is one character.  A symbol of the cpuinfo text is a white     *)
(*     space character, the colon, or a whole word without white space and *)
(*     colon; the only word that starts with the letters "flags" is the    *)
(*     word "flags" itself, so the regular expression sees the same text.  *)
(*   - The outcome of a call is Return(v) or Raise(msg).                   *)
(***************************************************************************)
EXTENDS Integers, Sequences, FiniteSets, TLC

VARIABLES pc, all, cpuinfo, flags, feature_sets, stdout, stderr, status,
          feature, featureset, result

vars == <<pc, all, cpuinfo, flags, feature_sets, stdout, stderr, status,
          feature, featureset, result>>

-----------------------------------------------------------------------------
(* Python objects and call outcomes *)

PyStr(s) == [type |-> "str", val |-> s]

PyList(l) == [type |-> "list", val |-> l]

PyInt(s) == [type |-> "int", val |-> s]

Return(v) == [kind |-> "return", val |-> v]

Raise(msg) == [kind |-> "raise", msg |-> msg]

StrList(l) == [i \in DOMAIN l |-> PyStr(l[i])]

RECURSIVE Concat(_)
Concat(syms) == IF syms = <<>> THEN "" ELSE Head(syms) \o Concat(Tail(syms))

Range(s) == {s[i] : i \in DOMAIN s}

-----------------------------------------------------------------------------
(* The static tables *)

FLAG_NAMES ==
    "AVX2" :> PyStr("avx2") @@
    "AVX512BW" :> PyStr("avx512bw") @@
    "AVX512CD" :> PyStr("avx512cd") @@
    "AVX512DQ" :> PyStr("avx512dq") @@
    "AVX512F" :> PyStr("avx512f") @@
    "AVX512VL" :> PyStr("avx512vl") @@
    "AVX" :> PyStr("avx") @@
    "BMI1" :> PyStr("bmi1") @@
    "BMI2" :> PyStr("bmi2") @@
    "CMOV" :> PyStr("cmov") @@
    "CMPXCHG16B" :> PyStr("cx16") @@
    "CMPXCHG8B" :> PyStr("cx8") @@
    "F16C" :> PyStr("f16c") @@
    "FMA" :> PyStr("fma") @@
    "FPU" :> PyStr("fpu") @@
    "FXSR" :> PyList(<<"fxsr", "fxsr_opt">>) @@
    "LAHF" :> PyStr("lahf_lm") @@
    "LZCNT" :> PyStr("abm") @@
    "MMX" :> PyList(<<"mmx", "mmxext">>) @@
    "MOVBE" :> PyStr("movbe") @@
    "OSXSAVE" :> PyStr("xsave") @@
    "POPCNT" :> PyList(<<"popcnt", "abm">>) @@
    "SCE" :> PyStr("syscall") @@
    "SSE2" :> PyStr("sse2") @@
    "SSE3" :> PyList(<<"sse3", "ssse3", "pni">>) @@
    "SSE4-1" :> PyStr("sse4_1") @@
    "SSE4-2" :> PyStr("sse4_2") @@
    "SSE" :> PyStr("sse") @@
    "SSSE3" :> PyStr("ssse3")

X86_64_REQUIRED_FEATURES ==
    StrList(<<"CMOV", "CMPXCHG8B", "FPU", "FXSR", "MMX", "SCE", "SSE", "SSE2">>)

X86_64_V2_REQUIRED_FEATURES ==
    StrList(<<"CMPXCHG16B", "LAHF", "POPCNT", "SSE3", "SSE4-1", "SSE4-2", "SSSE3">>)

X86_64_V3_REQUIRED_FEATURES ==
    StrList(<<"AVX", "AVX2", "BMI1", "BMI2", "F16C", "FMA", "LZCNT", "MOVBE",
              "OSXSAVE">>)

X86_64_V4_REQUIRED_FEATURES ==
    StrList(<<"AVX512BW", "AVX512CD", "AVX512DQ", "AVX512F", "AVX512VL">>)

(* the names of the tier tables, as character sequences *)
NAME_X86_64 ==
    <<"X", "8", "6", "_", "6", "4", "_", "R", "E", "Q", "U", "I", "R", "E", "D",
      "_", "F", "E", "A", "T", "U", "R", "E", "S">>

NAME_X86_64_V2 ==
    <<"X", "8", "6", "_", "6", "4", "_", "V", "2", "_", "R", "E", "Q", "U", "I",
      "R", "E", "D", "_", "F", "E", "A", "T", "U", "R", "E", "S">>

NAME_X86_64_V3 ==
    <<"X", "8", "6", "_", "6", "4", "_", "V", "3", "_", "R", "E", "Q", "U", "I",
      "R", "E", "D", "_", "F", "E", "A", "T", "U", "R", "E", "S">>

NAME_X86_64_V4 ==
    <<"X", "8", "6", "_", "6", "4", "_", "V", "4", "_", "R", "E", "Q", "U", "I",
      "R", "E", "D", "_", "F", "E", "A", "T", "U", "R", "E", "S">>

(* globals(): the names bound in the module, in the order they are bound.  *)
(* Only the names around the tables are listed; no other name of the       *)
(* module starts with X86_64.                                              *)
GLOBALS == <<
    <<"r", "e">>,
    <<"s", "y", "s">>,
    <<"F", "L", "A", "G", "_", "N", "A", "M", "E", "S">>,
    NAME_X86_64,
    NAME_X86_64_V2,
    NAME_X86_64_V3,
    NAME_X86_64_V4,
    <<"m", "a", "i", "n">>,
    <<"g", "e", "t", "_", "s", "u", "p", "p", "o", "r", "t", "e", "d", "_", "f",
      "e", "a", "t", "u", "r", "e", "_", "s", "e", "t", "s">> >>

(* globals()[name] for the names the tier scan can select *)
GlobalValue(name) ==
    CASE name = NAME_X86_64 -> X86_64_REQUIRED_FEATURES
      [] name = NAME_X86_64_V2 -> X86_64_V2_REQUIRED_FEATURES
      [] name = NAME_X86_64_V3 -> X86_64_V3_REQUIRED_FEATURES
      [] name = NAME_X86_64_V4 -> X86_64_V4_REQUIRED_FEATURES

-----------------------------------------------------------------------------
(* Characters: order (str comparison), \w, and str.lower *)

AsciiOrder ==
    <<"0", "1", "2", "3", "4", "5", "6", "7", "8", "9", "A", "B", "C", "D", "E",
      "F", "G", "H", "I", "J", "K", "L", "M", "N", "O", "P", "Q", "R", "S", "T",
      "U", "V", "W", "X", "Y", "Z", "_", "a", "b", "c", "d", "e", "f", "g", "h",
      "i", "j", "k", "l", "m", "n", "o", "p", "q", "r", "s", "t", "u", "v", "w",
      "x", "y", "z">>

Ord(c) == CHOOSE i \in DOMAIN AsciiOrder : AsciiOrder[i] = c

IsWordChar(c) == c \in Range(AsciiOrder)

UpperCase ==
    <<"A", "B", "C", "D", "E", "F", "G", "H", "I", "J", "K", "L", "M", "N", "O",
      "P", "Q", "R", "S", "T", "U", "V", "W", "X", "Y", "Z">>

LowerCase ==
    <<"a", "b", "c", "d", "e", "f", "g", "h", "i", "j", "k", "l", "m", "n", "o",
      "p", "q", "r", "s", "t", "u", "v", "w", "x", "y", "z">>

LowerChar(c) ==
    IF c \in Range(UpperCase)
    THEN LowerCase[CHOOSE i \in DOMAIN UpperCase : UpperCase[i] = c]
    ELSE c

lower(s) == [i \in DOMAIN s |-> LowerChar(s[i])]

(* s < t for two str values given as character sequences *)
RECURSIVE StrLess(_, _)
StrLess(s, t) ==
    IF t = <<>> THEN FALSE
    ELSE IF s = <<>> THEN TRUE
    ELSE IF Head(s) # Head(t) THEN Ord(Head(s)) < Ord(Head(t))
    ELSE StrLess(Tail(s), Tail(t))

(* a < b for two tuples (variable name, tier name) *)
TupleLess(a, b) ==
    \/ StrLess(a[1], b[1])
    \/ a[1] = b[1] /\ StrLess(a[2], b[2])

RECURSIVE InsertSorted(_, _)
InsertSorted(x, l) ==
    IF l = <<>> THEN <<x>>
    ELSE IF TupleLess(x, Head(l)) THEN <<x>> \o l
    ELSE <<Head(l)>> \o InsertSorted(x, Tail(l))

(* list.sort() of a list of tuples *)
RECURSIVE sort(_)
sort(l) == IF l = <<>> THEN <<>> ELSE InsertSorted(Head(l), sort(Tail(l)))

-----------------------------------------------------------------------------
(* Feature resolver and tier evaluator *)

(* has_feature, were it to ask for every registered spelling *)
has_feature_every_spelling(fl, feat) ==
    IF feat.type # "str" THEN Raise("Given feature is not of type str")
    ELSE IF feat.val \notin DOMAIN FLAG_NAMES THEN Raise("Unknown feature flag")
    ELSE LET flag == FLAG_NAMES[feat.val]
             required_flags == IF flag.type = "str" THEN <<flag.val>> ELSE flag.val
         IN  Return(\A i \in DOMAIN required_flags : required_flags[i] \in fl)

(* has_feature, were it to answer False for a name that is not registered *)
has_feature_unknown_is_false(fl, feat) ==
    IF feat.type # "str" THEN Raise("Given feature is not of type str")
    ELSE IF feat.val \notin DOMAIN FLAG_NAMES THEN Return(FALSE)
    ELSE LET flag == FLAG_NAMES[feat.val]
             required_flags == IF flag.type = "str" THEN <<flag.val>> ELSE flag.val
         IN  Return(\E i \in DOMAIN required_flags : required_flags[i] \in fl)

(* has_feature, were it to ask for exactly one of the registered spellings *)
has_feature_single_spelling(fl, feat) ==
    IF feat.type # "str" THEN Raise("Given feature is not of type str")
    ELSE IF feat.val \notin DOMAIN FLAG_NAMES THEN Raise("Unknown feature flag")
    ELSE LET flag == FLAG_NAMES[feat.val]
             required_flags == IF flag.type = "str" THEN <<flag.val>> ELSE flag.val
         IN  Return(Cardinality({i \in DOMAIN required_flags :
                                   required_flags[i] \in fl}) = 1)

has_feature(fl, feat) ==
    IF feat.type # "str" THEN Raise("Given feature is not of type str")
    ELSE IF feat.val \notin DOMAIN FLAG_NAMES THEN Raise("Unknown feature flag")
    ELSE LET flag == FLAG_NAMES[feat.val]
             required_flags == IF flag.type = "str" THEN <<flag.val>> ELSE flag.val
         IN  Return(\E i \in DOMAIN required_flags : required_flags[i] \in fl)

(* False in (has_feature(flags, feat) for feat in featureset), from the    *)
(* i-th feature on: the generator is consumed in order and only as far as  *)
(* the first False; an exception of has_feature leaves the scan.           *)
RECURSIVE FalseInFeatures(_, _, _)
FalseInFeatures(fl, fs, i) ==
    IF i > Len(fs) THEN Return(FALSE)
    ELSE LET r == has_feature(fl, fs[i])
         IN  IF r.kind = "raise" THEN r
             ELSE IF r.val = FALSE THEN Return(TRUE)
             ELSE FalseInFeatures(fl, fs, i + 1)

supports_feature_set(fl, fs) ==
    LET found == FalseInFeatures(fl, fs, 1)
    IN  IF found.kind = "raise" THEN found ELSE Return(~found.val)

REQUIRED_SUFFIX ==
    <<"_", "R", "E", "Q", "U", "I", "R", "E", "D", "_", "F", "E", "A", "T", "U",
      "R", "E", "S">>

X86_64_PREFIX == <<"X", "8", "6", "_", "6", "4">>

(* re.match of the tier pattern against name: the literal X86_64, a greedy *)
(* run of word characters (group 1 is the literal and the run), then the   *)
(* literal _REQUIRED_FEATURES; the match is anchored at the start of name  *)
(* only.  These are the lengths k of group 1 for which the pattern         *)
(* matches; the greedy run takes the largest of them.                      *)
TierMatchLengths(name) ==
    {k \in Len(X86_64_PREFIX) .. Len(name) :
        /\ SubSeq(name, 1, Len(X86_64_PREFIX)) = X86_64_PREFIX
        /\ \A j \in (Len(X86_64_PREFIX) + 1) .. k : IsWordChar(name[j])
        /\ k + Len(REQUIRED_SUFFIX) <= Len(name)
        /\ SubSeq(name, k + 1, k + Len(REQUIRED_SUFFIX)) = REQUIRED_SUFFIX}

TierMatch(name) ==
    LET ks == TierMatchLengths(name)
    IN  IF ks = {} THEN <<>>
        ELSE <<SubSeq(name, 1, CHOOSE k \in ks : \A k2 \in ks : k2 <= k)>>

(* the first loop of get_supported_feature_sets, from the i-th global on *)
RECURSIVE FindFeatureSets(_)
FindFeatureSets(i) ==
    IF i > Len(GLOBALS) THEN <<>>
    ELSE LET m == TierMatch(GLOBALS[i])
         IN  IF m = <<>> THEN FindFeatureSets(i + 1)
             ELSE <<<<GLOBALS[i], lower(m[1])>>>> \o FindFeatureSets(i + 1)

(* the second loop of get_supported_feature_sets: supported so far, next i *)
RECURSIVE CollectSupported(_, _, _, _)
CollectSupported(fl, afs, i, supported) ==
    IF i > Len(afs) THEN Return(supported)
    ELSE LET r == supports_feature_set(fl, GlobalValue(afs[i][1]))
         IN  IF r.kind = "raise" THEN r
             ELSE IF r.val THEN CollectSupported(fl, afs, i + 1,
                                                 Append(supported, Concat(afs[i][2])))
             ELSE CollectSupported(fl, afs, i + 1, supported)

(* all_feature_sets after the sort: it depends on the globals only *)
all_feature_sets == sort(FindFeatureSets(1))

(* get_supported_feature_sets, were it to stop at the first tier that is   *)
(* not supported                                                           *)
RECURSIVE CollectSupportedPrefix(_, _, _, _)
CollectSupportedPrefix(fl, afs, i, supported) ==
    IF i > Len(afs) THEN Return(supported)
    ELSE LET r == supports_feature_set(fl, GlobalValue(afs[i][1]))
         IN  IF r.kind = "raise" THEN r
             ELSE IF r.val THEN CollectSupportedPrefix(fl, afs, i + 1,
                                                       Append(supported, Concat(afs[i][2])))
             ELSE Return(supported)

get_supported_feature_sets_prefix(fl) ==
    CollectSupportedPrefix(fl, all_feature_sets, 1, <<>>)

get_supported_feature_sets(fl) ==
    CollectSupported(fl, all_feature_sets, 1, <<>>)

-----------------------------------------------------------------------------
(* str methods on symbol sequences *)

WHITESPACE == {" ", "\t", "\n"}

(* the first index from `from` on whose symbol is in S, else Len(s) + 1 *)
RECURSIVE FirstIn(_, _, _)
FirstIn(s, from, S) ==
    IF from > Len(s) THEN Len(s) + 1
    ELSE IF s[from] \in S THEN from
    ELSE FirstIn(s, from + 1, S)

(* the first index from `from` on whose symbol is not in S, else Len(s) + 1 *)
RECURSIVE FirstNotIn(_, _, _)
FirstNotIn(s, from, S) ==
    IF from > Len(s) THEN Len(s) + 1
    ELSE IF s[from] \notin S THEN from
    ELSE FirstNotIn(s, from + 1, S)

(* the last index whose symbol is not in S, else 0 *)
RECURSIVE LastNotIn(_, _, _)
LastNotIn(s, to, S) ==
    IF to < 1 THEN 0
    ELSE IF s[to] \notin S THEN to
    ELSE LastNotIn(s, to - 1, S)

(* s.split(sep) for a separator of one symbol *)
RECURSIVE split(_, _)
split(s, sep) ==
    LET i == FirstIn(s, 1, {sep})
    IN  IF i > Len(s) THEN <<s>>
        ELSE <<SubSeq(s, 1, i - 1)>> \o split(SubSeq(s, i + 1, Len(s)), sep)

(* s.split(): the maximal runs of symbols that are not white space *)
RECURSIVE split_whitespace(_)
split_whitespace(s) ==
    LET b == FirstNotIn(s, 1, WHITESPACE)
        e == FirstIn(s, b, WHITESPACE)
    IN  IF b > Len(s) THEN <<>>
        ELSE <<SubSeq(s, b, e - 1)>> \o split_whitespace(SubSeq(s, e, Len(s)))

strip(s) == SubSeq(s, FirstNotIn(s, 1, WHITESPACE), LastNotIn(s, Len(s), WHITESPACE))

(* sep.join(parts) for symbol sequences *)
RECURSIVE join(_, _)
join(sep, parts) ==
    IF parts = <<>> THEN <<>>
    ELSE IF Len(parts) = 1 THEN parts[1]
    ELSE parts[1] \o <<sep>> \o join(sep, Tail(parts))

(* sep.join(parts) for str values that are only printed *)
RECURSIVE join_str(_, _)
join_str(sep, parts) ==
    IF parts = <<>> THEN ""
    ELSE IF Len(parts) = 1 THEN parts[1]
    ELSE parts[1] \o sep \o join_str(sep, Tail(parts))

-----------------------------------------------------------------------------
(* Flag extractor *)

(* MatchFlagLine, were the expression not anchored at the start of a line *)
MatchFlagLineUnanchored(text, pos) ==
    LET colon == FirstNotIn(text, pos + 1, WHITESPACE)
        value == FirstNotIn(text, colon + 1, WHITESPACE)
        end == FirstIn(text, value, {"\n"})
    IN  IF /\ text[pos] = "flags"
           /\ colon <= Len(text)
           /\ text[colon] = ":"
        THEN <<SubSeq(text, value, end - 1), end>>
        ELSE <<>>

(* One attempt of flag_line_expression (re.MULTILINE) at position pos: the *)
(* start of a line, the literal flags, white space, a colon, white space,  *)
(* then group 3, the rest of the line.  The white space runs may pass line *)
(* ends; group 3 stops at the next line end.  The result is <<>> or        *)
(* <<group 3, end of the match>>.                                          *)
MatchFlagLine(text, pos) ==
    LET colon == FirstNotIn(text, pos + 1, WHITESPACE)
        value == FirstNotIn(text, colon + 1, WHITESPACE)
        end == FirstIn(text, value, {"\n"})
    IN  IF /\ pos = 1 \/ text[pos - 1] = "\n"
           /\ text[pos] = "flags"
           /\ colon <= Len(text)
           /\ text[colon] = ":"
        THEN <<SubSeq(text, value, end - 1), end>>
        ELSE <<>>

(* re.findall: group 3 of the non-overlapping matches, left to right *)
RECURSIVE FindAllFlagLines(_, _)
FindAllFlagLines(text, pos) ==
    IF pos > Len(text) THEN <<>>
    ELSE LET m == MatchFlagLine(text, pos)
         IN  IF m = <<>> THEN FindAllFlagLines(text, pos + 1)
             ELSE <<m[1]>> \o FindAllFlagLines(text, m[2])

extract_cpu_flags(text) ==
    LET raw == split(text, "\n")
        lines == [i \in DOMAIN raw |-> strip(raw[i])]
        matches == FindAllFlagLines(join("\n", lines), 1)
        flag_lines == [i \in DOMAIN matches |->
                          join(" ", split_whitespace(matches[i]))]
    IN  UNION {{Concat(f) : f \in Range(split(flag_lines[i], " "))} :
               i \in DOMAIN flag_lines}

-----------------------------------------------------------------------------
(* main *)

NO_FEATURE_SET == "No x86-64 feature set fully supported!"

READ_ERROR == "Error: Could not read /proc/cpuinfo"

(* MainOutput, were the default mode to print the first element *)
MainOutputFirst(fs, a) == IF a THEN join_str(" ", fs) ELSE fs[1]

(* the line main prints when feature_sets is not empty *)
MainOutput(fs, a) == IF a THEN join_str(" ", fs) ELSE fs[Len(fs)]

-----------------------------------------------------------------------------
(* Inputs *)

MaxLines == 3

MaxEdits == 1

MaxFeatures == 2

(* Lines a capability listing can hold.  The first two are the flags lines *)
(* of a baseline and of a v2 processor.                                    *)
CPUINFO_LINES == {
    <<"flags", "\t", "\t", ":", " ", "cmov", " ", "cx8", " ", "fpu", " ", "fxsr",
      " ", "mmx", " ", "syscall", " ", "sse", " ", "sse2">>,
    <<"flags", " ", ":", " ", "cx16", "\t", "lahf_lm", " ", " ", "popcnt", " ",
      "sse3", " ", "ssse3", " ", "sse4_1", " ", "sse4_2">>,
    <<"flags", "\t", ":">>,
    <<"flags">>,
    <<":", " ", "avx">>,
    <<"model", " ", "name", "\t", ":", " ", "avx2">>,
    <<>>,
    <<" ", "flags", " ", ":", " ", "bmi1", " ">>,
    <<"flags", ":", "bmi2">>,
    <<"flags", "x", " ", ":", " ", "fma">>,
    <<"cpu", " ", "flags", " ", ":", " ", "f16c">> }

CpuinfoTexts ==
    {join("\n", ls) : ls \in UNION {[1 .. n -> CPUINFO_LINES] : n \in 0 .. MaxLines}}

(* the spellings FLAG_NAMES registers for a known feature name *)
Spellings(name) ==
    IF FLAG_NAMES[name].type = "str" THEN {FLAG_NAMES[name].val}
    ELSE Range(FLAG_NAMES[name].val)

ALL_FLAGS == UNION {Spellings(name) : name \in DOMAIN FLAG_NAMES} \cup {"ht"}

TIERS == <<X86_64_REQUIRED_FEATURES, X86_64_V2_REQUIRED_FEATURES,
           X86_64_V3_REQUIRED_FEATURES, X86_64_V4_REQUIRED_FEATURES>>

FirstSpellings(tier) ==
    {IF FLAG_NAMES[f.val].type = "str" THEN FLAG_NAMES[f.val].val
     ELSE FLAG_NAMES[f.val].val[1] : f \in Range(tier)}

LastSpellings(tier) ==
    {IF FLAG_NAMES[f.val].type = "str" THEN FLAG_NAMES[f.val].val
     ELSE FLAG_NAMES[f.val].val[Len(FLAG_NAMES[f.val].val)] : f \in Range(tier)}

BaseFlagSets ==
    {UNION {FirstSpellings(TIERS[i]) : i \in ts} : ts \in SUBSET DOMAIN TIERS}
    \cup {UNION {LastSpellings(TIERS[i]) : i \in ts} : ts \in SUBSET DOMAIN TIERS}

RECURSIVE Edits(_)
Edits(n) ==
    IF n = 0 THEN {{}}
    ELSE LET P == Edits(n - 1) IN P \cup {p \cup {t} : p \in P, t \in ALL_FLAGS}

(* The flag sets of the tier evaluation: the flags of any set of tiers,    *)
(* with up to MaxEdits flags added or removed.                             *)
FlagSets == {(b \ d) \cup (d \ b) : b \in BaseFlagSets, d \in Edits(MaxEdits)}

(* Arguments of the resolver: every registered name, names that are not    *)
(* registered, and an object that is no str.                               *)
FeatureArgs ==
    {PyStr(n) : n \in DOMAIN FLAG_NAMES \cup {"NOPE", "sse", ""}} \cup {PyInt("0")}

ListFeatures == {PyStr("SSE"), PyStr("FXSR"), PyStr("NOPE")}

FeatureLists == UNION {[1 .. n -> ListFeatures] : n \in 0 .. MaxFeatures}

ResolverFlagSets == SUBSET {"sse", "fxsr", "fxsr_opt", "abm"}

NoCall == [kind |-> "none"]

(* what the monotonicity check adds to a flag set: any flag, or the flags  *)
(* of a tier                                                               *)
Additions ==
    {{t} : t \in ALL_FLAGS} \cup {FirstSpellings(TIERS[i]) : i \in DOMAIN TIERS}

-----------------------------------------------------------------------------
(* The program *)

Init ==
    /\ pc = "main"
    /\ all = FALSE
    /\ cpuinfo = <<>>
    /\ flags = {}
    /\ feature_sets = <<>>
    /\ stdout = <<>>
    /\ stderr = <<>>
    /\ status = <<>>
    /\ feature = PyStr("")
    /\ featureset = <<>>
    /\ result = NoCall

ParseArgs ==
    /\ pc = "main"
    /\ \E a \in BOOLEAN : all' = a
    /\ pc' = "get_cpuinfo"
    /\ UNCHANGED <<cpuinfo, flags, feature_sets, stdout, stderr, status,
                   feature, featureset, result>>

GetCpuinfo ==
    /\ pc = "get_cpuinfo"
    /\ \E text \in CpuinfoTexts : cpuinfo' = text
    /\ pc' = "extract_cpu_flags"
    /\ UNCHANGED <<all, flags, feature_sets, stdout, stderr, status,
                   feature, featureset, result>>

GetCpuinfoIOError ==
    /\ pc = "get_cpuinfo"
    /\ stderr' = Append(stderr, READ_ERROR)
    /\ cpuinfo' = <<>>
    /\ pc' = "extract_cpu_flags"
    /\ UNCHANGED <<all, flags, feature_sets, stdout, status,
                   feature, featureset, result>>

ExtractCpuFlags ==
    /\ pc = "extract_cpu_flags"
    /\ flags' = extract_cpu_flags(cpuinfo)
    /\ pc' = "get_supported_feature_sets"
    /\ UNCHANGED <<all, cpuinfo, feature_sets, stdout, stderr, status,
                   feature, featureset, result>>

(* An exception of the evaluation is not caught by main: the interpreter   *)
(* prints the traceback and exits with status 1.                           *)
GetSupportedFeatureSets ==
    /\ pc = "get_supported_feature_sets"
    /\ LET r == get_supported_feature_sets(flags)
       IN  IF r.kind = "raise"
           THEN /\ stderr' = Append(stderr, r.msg)
                /\ status' = <<1>>
                /\ pc' = "crashed"
                /\ UNCHANGED feature_sets
           ELSE /\ feature_sets' = r.val
                /\ pc' = "report"
                /\ UNCHANGED <<stderr, status>>
    /\ UNCHANGED <<all, cpuinfo, flags, stdout, feature, featureset, result>>

ReportNone ==
    /\ pc = "report"
    /\ Len(feature_sets) = 0
    /\ stderr' = Append(stderr, NO_FEATURE_SET)
    /\ status' = <<1>>
    /\ pc' = "done"
    /\ UNCHANGED <<all, cpuinfo, flags, feature_sets, stdout,
                   feature, featureset, result>>

ReportAll ==
    /\ pc = "report"
    /\ Len(feature_sets) # 0
    /\ all
    /\ stdout' = Append(stdout, MainOutput(feature_sets, all))
    /\ status' = <<0>>
    /\ pc' = "done"
    /\ UNCHANGED <<all, cpuinfo, flags, feature_sets, stderr,
                   feature, featureset, result>>

ReportLatest ==
    /\ pc = "report"
    /\ Len(feature_sets) # 0
    /\ ~all
    /\ stdout' = Append(stdout, MainOutput(feature_sets, all))
    /\ status' = <<0>>
    /\ pc' = "done"
    /\ UNCHANGED <<all, cpuinfo, flags, feature_sets, stderr,
                   feature, featureset, result>>

Next ==
    \/ ParseArgs
    \/ GetCpuinfo
    \/ GetCpuinfoIOError
    \/ ExtractCpuFlags
    \/ GetSupportedFeatureSets
    \/ ReportNone
    \/ ReportAll
    \/ ReportLatest

Spec == Init /\ [][Next]_vars

-----------------------------------------------------------------------------
(* The tier evaluation and the report, from any flag set of FlagSets *)

InitTiers ==
    /\ pc = "get_supported_feature_sets"
    /\ all \in BOOLEAN
    /\ cpuinfo = <<>>
    /\ flags \in FlagSets
    /\ feature_sets = <<>>
    /\ stdout = <<>>
    /\ stderr = <<>>
    /\ status = <<>>
    /\ feature = PyStr("")
    /\ featureset = <<>>
    /\ result = NoCall

NextTiers ==
    \/ GetSupportedFeatureSets
    \/ ReportNone
    \/ ReportAll
    \/ ReportLatest

SpecTiers == InitTiers /\ [][NextTiers]_vars

-----------------------------------------------------------------------------
(* Calls of has_feature and supports_feature_set with any arguments *)

InitResolver ==
    /\ \/ pc = "has_feature" /\ feature \in FeatureArgs /\ featureset = <<>>
       \/ pc = "supports_feature_set" /\ feature = PyStr("")
          /\ featureset \in FeatureLists
    /\ flags \in ResolverFlagSets
    /\ all = FALSE
    /\ cpuinfo = <<>>
    /\ feature_sets = <<>>
    /\ stdout = <<>>
    /\ stderr = <<>>
    /\ status = <<>>
    /\ result = NoCall

CallHasFeature ==
    /\ pc = "has_feature"
    /\ result' = has_feature(flags, feature)
    /\ pc' = "has_feature_done"
    /\ UNCHANGED <<all, cpuinfo, flags, feature_sets, stdout, stderr, status,
                   feature, featureset>>

CallSupportsFeatureSet ==
    /\ pc = "supports_feature_set"
    /\ result' = supports_feature_set(flags, featureset)
    /\ pc' = "supports_feature_set_done"
    /\ UNCHANGED <<all, cpuinfo, flags, feature_sets, stdout, stderr, status,
                   feature, featureset>>

NextResolver ==
    \/ CallHasFeature
    \/ CallSupportsFeatureSet

SpecResolver == InitResolver /\ [][NextResolver]_vars

-----------------------------------------------------------------------------
(* What the claims speak of *)

(* a registered spelling of the feature is in the flag set *)
Spelled(fl, name) == Spellings(name) \cap fl # {}

(* every feature the tier requires has a registered spelling in the flag set *)
Satisfied(fl, tier) == \A i \in DOMAIN tier : Spelled(fl, tier[i].val)

(* the name the evaluator gives the i-th tier of (baseline, v2, v3, v4) *)
TIER_NAMES == [i \in DOMAIN all_feature_sets |-> Concat(all_feature_sets[i][2])]

TierName(i) == TIER_NAMES[i]

RECURSIVE SatisfiedNames(_, _)
SatisfiedNames(fl, i) ==
    IF i > Len(TIERS) THEN <<>>
    ELSE IF Satisfied(fl, TIERS[i]) THEN <<TierName(i)>> \o SatisfiedNames(fl, i + 1)
    ELSE SatisfiedNames(fl, i + 1)

(* the place of a tier name in (baseline, v2, v3, v4) *)
Rank(name) == CHOOSE i \in DOMAIN TIERS : TierName(i) = name

(* the elements of l, in order, with single spaces between them *)
RECURSIVE Spaced(_, _)
Spaced(l, n) == IF n = 1 THEN l[1] ELSE Spaced(l, n - 1) \o " " \o l[n]

(* The label of a line is what stands before its first colon (the whole    *)
(* line when it has no colon), without the white space around it; its      *)
(* value is what stands after that colon.                                  *)
HasColon(line) == FirstIn(line, 1, {":"}) <= Len(line)

LineLabel(line) == strip(SubSeq(line, 1, FirstIn(line, 1, {":"}) - 1))

LineValue(line) == SubSeq(line, FirstIn(line, 1, {":"}) + 1, Len(line))

IsFlagsLine(line) == HasColon(line) /\ LineLabel(line) = <<"flags">>

LineTokens(line) == {Concat(w) : w \in Range(split_whitespace(LineValue(line)))}

FlagsLineTokens(text) ==
    UNION {LineTokens(l) : l \in {l \in Range(split(text, "\n")) : IsFlagsLine(l)}}

NoFlagsLabel(text) == \A l \in Range(split(text, "\n")) : LineLabel(l) # <<"flags">>

Reverse(l) == [i \in DOMAIN l |-> l[Len(l) + 1 - i]]

(* the line with the tokens of its value in the reverse order *)
TokensReversed(line) ==
    SubSeq(line, 1, FirstIn(line, 1, {":"})) \o <<" ">>
    \o join(" ", Reverse(split_whitespace(LineValue(line))))

(* the listing with its flags lines rearranged by p *)
Rearranged(lines, P, p) ==
    join("\n", [i \in DOMAIN lines |-> IF i \in P THEN lines[p[i]] ELSE lines[i]])

SCENARIO_A == {"cmov", "cx8", "fpu", "fxsr", "mmx", "syscall", "sse", "sse2"}

SCENARIO_B ==
    SCENARIO_A \cup {"cx16", "lahf_lm", "popcnt", "sse3", "ssse3", "sse4_1", "sse4_2"}

SCENARIO_D == UNION {FirstSpellings(TIERS[i]) : i \in DOMAIN TIERS}

-----------------------------------------------------------------------------
(* The claims *)

(* C1: for every flag set and each of the four shipped tiers,              *)
(* supports_feature_set returns true exactly when every feature of the     *)
(* tier has at least one of its registered spellings in the flag set.      *)
C1_TierIffEveryFeatureSpelled ==
    \A i \in DOMAIN TIERS :
        supports_feature_set(flags, TIERS[i]) = Return(Satisfied(flags, TIERS[i]))

(* the baseline is supported through second spellings only, v2 is not *)
C1_Witness ==
    /\ pc = "report"
    /\ "fxsr" \notin flags /\ "mmx" \notin flags
    /\ supports_feature_set(flags, X86_64_REQUIRED_FEATURES) = Return(TRUE)
    /\ supports_feature_set(flags, X86_64_V2_REQUIRED_FEATURES) = Return(FALSE)

C3_HyphenatedTierNames ==
    pc = "done" =>
        /\ flags = SCENARIO_B => feature_sets = <<"x86-64", "x86-64-v2">>
        /\ flags = SCENARIO_B /\ all => stdout = <<"x86-64 x86-64-v2">>
        /\ SCENARIO_D \subseteq flags /\ ~all => stdout = <<"x86-64-v4">>

(* C4: main's outcome follows from the list of satisfied tiers and --all:  *)
(* an empty list gives a non-zero status, a diagnostic on the error stream *)
(* and nothing on standard output; otherwise status 0 and exactly one      *)
(* line, the last element by default and all elements joined by single     *)
(* spaces with --all.                                                      *)
C4_OutcomeFromListAndSwitch ==
    pc = "done" =>
        IF feature_sets = <<>>
        THEN /\ Len(status) = 1 /\ status[1] # 0
             /\ stderr # <<>>
             /\ stdout = <<>>
        ELSE /\ status = <<0>>
             /\ Len(stdout) = 1
             /\ all => stdout[1] = Spaced(feature_sets, Len(feature_sets))
             /\ ~all => stdout[1] = feature_sets[Len(feature_sets)]

(* a default-mode run with three satisfied tiers has printed its line *)
C4_Witness ==
    /\ pc = "done"
    /\ ~all
    /\ Len(feature_sets) = 3
    /\ Len(stdout) = 1

(* C5: extract_cpu_flags is union-based and order-independent: every token *)
(* after the colon of any flags line is in the returned set, and neither   *)
(* rearranging the flags lines nor the tokens of a flags line changes the  *)
(* returned set.                                                           *)
C5_UnionAndOrderIndependent ==
    pc = "get_supported_feature_sets" =>
        LET lines == split(cpuinfo, "\n")
            P == {i \in DOMAIN lines : IsFlagsLine(lines[i])}
        IN  /\ FlagsLineTokens(cpuinfo) \subseteq flags
            /\ \A p \in Permutations(P) :
                  extract_cpu_flags(Rearranged(lines, P, p)) = flags
            /\ \A i \in P :
                  extract_cpu_flags(join("\n", [lines EXCEPT ![i] = TokensReversed(lines[i])]))
                      = flags

(* C6: every element of the set extract_cpu_flags returns is a token of    *)
(* the value of a line whose label is exactly flags.                       *)
C6_OnlyTokensOfFlagsLines ==
    pc = "get_supported_feature_sets" => flags \subseteq FlagsLineTokens(cpuinfo)

C8_UnknownNameRaises ==
    pc = "has_feature_done" /\ feature.type = "str" =>
        IF feature.val \in DOMAIN FLAG_NAMES
        THEN result.kind = "return" /\ result.val \in BOOLEAN
        ELSE result = Raise("Unknown feature flag")

(* a name that is not registered has been looked up *)
C8_Witness ==
    /\ pc = "has_feature_done"
    /\ feature = PyStr("NOPE")
    /\ result.kind = "raise"

(* C9: supports_feature_set raises the unknown-feature error for every     *)
(* feature list that holds a name absent from FLAG_NAMES, at any position, *)
(* and every feature of the four shipped tiers is a key of FLAG_NAMES.     *)
C9_UnknownNameInListRaises ==
    /\ \A i \in DOMAIN TIERS : \A j \in DOMAIN TIERS[i] :
          TIERS[i][j].val \in DOMAIN FLAG_NAMES
    /\ pc = "supports_feature_set_done"
       /\ (\E j \in DOMAIN featureset : featureset[j].val \notin DOMAIN FLAG_NAMES)
       => result = Raise("Unknown feature flag")

(* C10: tier support is monotone in the flag set: flags added to the flag  *)
(* set remove no tier from the result and do not lower the last tier.      *)
C10_MonotoneInFlags ==
    pc = "report" =>
        \A d \in Additions :
            LET more == get_supported_feature_sets(flags \cup d)
            IN  /\ more.kind = "return"
                /\ Range(feature_sets) \subseteq Range(more.val)
                /\ feature_sets # <<>> =>
                      Rank(more.val[Len(more.val)]) >= Rank(feature_sets[Len(feature_sets)])

(* a flag set with the second spelling of a feature whose first spelling   *)
(* is among the additions: v2 is supported before and after                *)
C10_Witness ==
    /\ pc = "report"
    /\ "abm" \in flags /\ "popcnt" \notin flags
    /\ TierName(2) \in Range(feature_sets)
    /\ TierName(2) \in Range(get_supported_feature_sets(flags \cup {"popcnt"}).val)

====
